---- MODULE Spec2Model ----
(***************************************************************************)
(* Model of src/aurn/mod.rs: AURNMetadata::new (bulk CSV acquisition and   *)
(* per-station site-code scrape) and AURNMetadata::select_between_dates    *)
(* (in-place date-range filter).                                           *)
(*                                                                         *)
(* Strings are sequences of one-character strings.  A CSVRow               *)
(* (HashMap<String, String>) is a function from field names to strings.    *)
(* A DateTime<Utc> is an integer number of days since 1970-01-01: every    *)
(* date the filter parses carries the fixed suffix T00:00:00Z, and the     *)
(* clock and the window bounds are sampled at the same resolution.         *)
(* A panic moves the program to pc = "panicked" and records the source     *)
(* line in panicAt.                                                        *)
(***************************************************************************)
EXTENDS Integers, Sequences, FiniteSets, TLC

VARIABLES pc, csv, row, metadata, aurn, now, ticks,
          start_date, end_date, site_index,
          panicAt, fetchLog, before, evals, hist

vars == <<pc, csv, row, metadata, aurn, now, ticks,
          start_date, end_date, site_index,
          panicAt, fetchLog, before, evals, hist>>

-----------------------------------------------------------------------------
(* Bounds *)

MaxRows == 2
MaxLen == 2
MaxTicks == 1
MaxCalls == 2

-----------------------------------------------------------------------------
(* Option values *)

None == [some |-> FALSE]
Some(v) == [some |-> TRUE, val |-> v]

Ok(v) == [ok |-> TRUE, val |-> v]
Err == [ok |-> FALSE]

-----------------------------------------------------------------------------
(* Characters *)

Digits == {"0", "1", "2", "3", "4", "5", "6", "7", "8", "9"}

DigitVal(c) ==
  CASE c = "0" -> 0 [] c = "1" -> 1 [] c = "2" -> 2 [] c = "3" -> 3
    [] c = "4" -> 4 [] c = "5" -> 5 [] c = "6" -> 6 [] c = "7" -> 7
    [] c = "8" -> 8 [] c = "9" -> 9

Letters == {"A", "B", "O", "T", "Z", "d", "e", "i", "s", "t", "x"}

\* the regex class \w: letters, digits and underscore
IsWordChar(c) == c \in Letters \cup Digits \cup {"_"}

-----------------------------------------------------------------------------
(* Regular expressions.  A pattern without repetition is a sequence of     *)
(* tokens: "\\d" is a decimal digit, "." is any character but a newline,   *)
(* any other token is that literal character.                              *)

TokenMatches(tok, c) ==
  CASE tok = "\\d" -> c \in Digits
    [] tok = "."   -> c # "\n"
    [] OTHER       -> c = tok

MatchesAt(re, s, off) ==
  /\ off + Len(re) <= Len(s)
  /\ \A j \in 1..Len(re) : TokenMatches(re[j], s[off + j])

\* Regex::is_match: an unanchored search, the pattern may match anywhere
is_match(re, s) == \E off \in 0..Len(s) : MatchesAt(re, s, off)

\* r"\d...-\d.-\d.T\d.:\d.:\d.Z"
iso8601_regex ==
  << "\\d", ".", ".", ".", "-", "\\d", ".", "-", "\\d", ".", "T",
     "\\d", ".", ":", "\\d", ".", ":", "\\d", ".", "Z" >>

-----------------------------------------------------------------------------
(* chrono *)

\* days from 1970-01-01 to the proleptic Gregorian date y-m-d
DaysFromCivil(y, m, d) ==
  LET yy  == IF m <= 2 THEN y - 1 ELSE y
      era == yy \div 400
      yoe == yy - era * 400
      mp  == (m + 9) % 12
      doy == (153 * mp + 2) \div 5 + d - 1
      doe == yoe * 365 + yoe \div 4 - yoe \div 100 + doy
  IN  era * 146097 + doe - 719468

IsLeap(y) == (y % 4 = 0 /\ y % 100 # 0) \/ y % 400 = 0

DaysInMonth(y, m) ==
  CASE m \in {1, 3, 5, 7, 8, 10, 12} -> 31
    [] m \in {4, 6, 9, 11} -> 30
    [] OTHER -> IF IsLeap(y) THEN 29 ELSE 28

\* chrono::MIN_DATETIME is -262144-01-01T00:00:00Z
MIN_DATETIME == DaysFromCivil(-262144, 1, 1)

Num2(s, i) == DigitVal(s[i]) * 10 + DigitVal(s[i + 1])

Num4(s, i) == Num2(s, i) * 100 + Num2(s, i + 2)

\* the shape dddd-dd-ddTdd:dd:ddZ, whole string
HasDateTimeShape(s) ==
  /\ Len(s) = 20
  /\ \A i \in {1, 2, 3, 4, 6, 7, 9, 10, 12, 13, 15, 16, 18, 19} : s[i] \in Digits
  /\ s[5] = "-" /\ s[8] = "-" /\ s[11] = "T"
  /\ s[14] = ":" /\ s[17] = ":" /\ s[20] = "Z"

\* str::parse::<DateTime<Utc>>: Ok(instant) for a date-time of that shape
\* naming a real calendar day and time of day, Err otherwise.  The strings
\* the filter hands to it end in T00:00:00Z, so the instant is a whole day.
parse_datetime(s) ==
  IF ~HasDateTimeShape(s) THEN Err
  ELSE LET y == Num4(s, 1)
           m == Num2(s, 6)
           d == Num2(s, 9)
       IN  IF /\ m \in 1..12
              /\ d >= 1 /\ d <= DaysInMonth(y, m)
              /\ Num2(s, 12) <= 23 /\ Num2(s, 15) <= 59 /\ Num2(s, 18) <= 60
           THEN Ok(DaysFromCivil(y, m, d))
           ELSE Err

-----------------------------------------------------------------------------
(* HashMap and Vec *)

\* HashMap::get
Get(map, key) == IF key \in DOMAIN map THEN Some(map[key]) ELSE None

\* HashMap::insert
Insert(map, key, v) == (key :> v) @@ map

\* Vec::pop in the place of Vec::remove
RemoveLast(v, i) == SubSeq(v, 1, Len(v) - 1)

\* Vec::remove(0) in the place of Vec::remove(site_index)
RemoveFirst(v, i) == SubSeq(v, 2, Len(v))

\* Vec::remove at the 1-based position i, later elements shift left
Remove(v, i) == SubSeq(v, 1, i - 1) \o SubSeq(v, i + 1, Len(v))

-----------------------------------------------------------------------------
(* select_between_dates, one iteration of the loop *)

MidnightSuffix == << "T", "0", "0", ":", "0", "0", ":", "0", "0", "Z" >>

\* site.get(field).unwrap().to_string() + "T00:00:00Z"
site_date_str(v) == v \o MidnightSuffix

\* a well-formed start date is parsed and unwrapped, anything else is
\* MIN_DATETIME
site_start_date(s) ==
  IF is_match(iso8601_regex, s) THEN parse_datetime(s) ELSE Ok(MIN_DATETIME)

site_end_date_min(s, t) ==
  IF is_match(iso8601_regex, s) THEN parse_datetime(s) ELSE Ok(MIN_DATETIME)

\* a well-formed end date is parsed and unwrapped, anything else is
\* Utc::now()
site_end_date(s, t) ==
  IF is_match(iso8601_regex, s) THEN parse_datetime(s) ELSE Ok(t)

within_start_inclusive(sd, site_end) == sd <= site_end

within_start(sd, site_end) == sd < site_end

within_end(ed, site_start) == ed > site_start

\* The body of the loop for one site at clock value t: the line of the
\* panic it raises ("none" when it raises none), the classification of the
\* two date strings, the effective dates and the decision.
SiteDecision(site, sd, ed, t) ==
  LET s  == Get(site, "Start Date")
      e  == Get(site, "End Date")
  IN  IF ~s.some THEN [panic |-> "mod.rs:207"]
      ELSE IF ~e.some THEN [panic |-> "mod.rs:208"]
      ELSE
        LET sstr == site_date_str(s.val)
            estr == site_date_str(e.val)
            sres == site_start_date(sstr)
            eres == site_end_date(estr, t)
        IN  IF ~sres.ok
            THEN [panic |-> "mod.rs:211", start_str |-> sstr, end_str |-> estr,
                  start_match |-> is_match(iso8601_regex, sstr)]
            ELSE IF ~eres.ok
            THEN [panic |-> "mod.rs:217", start_str |-> sstr, end_str |-> estr,
                  start_match |-> is_match(iso8601_regex, sstr),
                  end_match |-> is_match(iso8601_regex, estr)]
            ELSE [panic |-> "none", start_str |-> sstr, end_str |-> estr,
                  start_match |-> is_match(iso8601_regex, sstr),
                  end_match |-> is_match(iso8601_regex, estr),
                  site_start |-> sres.val, site_end |-> eres.val,
                  remove |-> ~(within_start(sd, eres.val)
                               /\ within_end(ed, sres.val))]

-----------------------------------------------------------------------------
(* HTML pages and HTTP.  A page is the sequence of its anchor elements in   *)
(* document order, each with its class attribute and its href attribute    *)
(* (None when the anchor has none).  A response is the page text or a      *)
(* transport error.                                                        *)

Anchor(class, href) == [class |-> class, href |-> href]

\* Html::select with the selector a[class="..."]: the anchors whose class
\* attribute is exactly cls, in document order
Select(page, cls) == SelectSeq(page, LAMBDA a : a.class = cls)

TransportError == [kind |-> "TransportError"]
Body(content) == [kind |-> "Body", content |-> content]

Value(v) == [panic |-> "none", val |-> v]
Panic(line) == [panic |-> line]

read_html_lenient(response) ==
  IF response.kind = "TransportError" THEN Value(Some(<< >>))
  ELSE Value(Some(response.content))

\* _read_html: get(query_url).unwrap().text().unwrap() panics on a bad URL
\* or a network error; the function has no path returning None
read_html(response) ==
  IF response.kind = "TransportError" THEN Panic("mod.rs:259")
  ELSE Value(Some(response.content))

\* _get_metadata_csv_link with the selector a[class="bCSV"]: the href of
\* the first such anchor; next().unwrap() panics when there is none
get_metadata_csv_link(html_file) ==
  LET found == Select(html_file, "bCSV")
  IN  IF found = << >> THEN Panic("mod.rs:285")
      ELSE Value(found[1].href)

\* _download_csv
download_csv(response) ==
  IF response.kind = "TransportError" THEN Panic("mod.rs:303")
  ELSE Value(Some(response.content))

-----------------------------------------------------------------------------
(* Configuration: the values of the documentation and of return_test_config *)

ConfigKeys ==
  << "Domain", "Site Info URN", "Regex CSV Link", "Regex Site ID Link",
     "Regex Site ID Code", "Metadata Query" >>

\* the line of the panic raised for the key at each position of ConfigKeys
ConfigPanicLine ==
  << "mod.rs:99", "mod.rs:103", "mod.rs:107", "mod.rs:111", "mod.rs:115",
     "mod.rs:119" >>

\* the first lookup that fails, in the order the code makes them
config_lookup(present) ==
  IF \A k \in 1..Len(ConfigKeys) : ConfigKeys[k] \in present
  THEN "none"
  ELSE LET first == CHOOSE k \in 1..Len(ConfigKeys) :
                      /\ ConfigKeys[k] \notin present
                      /\ \A j \in 1..(k - 1) : ConfigKeys[j] \in present
       IN  ConfigPanicLine[first]

\* "Regex Site ID Link" is r"\?site_id="
site_regex == << "?", "s", "i", "t", "e", "_", "i", "d", "=" >>

RECURSIVE TrailingWord(_)
\* "Regex Site ID Code" is r"\w*?$": the leftmost match that reaches the end
\* of the text is the longest suffix made of word characters, and the empty
\* suffix always matches, so captures(..).unwrap().get(0).unwrap() succeeds
TrailingWord(s) ==
  IF s = << >> \/ ~IsWordChar(s[Len(s)]) THEN << >>
  ELSE Append(TrailingWord(SubSeq(s, 1, Len(s) - 1)), s[Len(s)])

-----------------------------------------------------------------------------
(* AURNMetadata::new, the site-code scan of one station page *)

RECURSIVE scan_first_match(_, _, _)
scan_first_match(record, tags, k) ==
  IF k > Len(tags) THEN Value(record)
  ELSE IF ~tags[k].href.some THEN Panic("mod.rs:159")
  ELSE IF is_match(site_regex, tags[k].href.val)
       THEN IF "Site Code" \in DOMAIN record
            THEN scan_first_match(record, tags, k + 1)
            ELSE scan_first_match(
                   Insert(record, "Site Code", TrailingWord(tags[k].href.val)),
                   tags, k + 1)
       ELSE scan_first_match(record, tags, k + 1)

RECURSIVE scan_bdata_tags(_, _, _)
\* for bdata_tag in bdata_tags: every tag whose href matches site_regex
\* inserts its token under "Site Code", replacing an earlier one; a tag
\* without href panics in the unwrap of the map closure when it is reached
scan_bdata_tags(record, tags, k) ==
  IF k > Len(tags) THEN Value(record)
  ELSE IF ~tags[k].href.some THEN Panic("mod.rs:159")
  ELSE IF is_match(site_regex, tags[k].href.val)
       THEN scan_bdata_tags(
              Insert(record, "Site Code", TrailingWord(tags[k].href.val)),
              tags, k + 1)
       ELSE scan_bdata_tags(record, tags, k + 1)

\* the Site Code scan of a fetched station page
enrich(record, site_page) == scan_bdata_tags(record, Select(site_page, "bData"), 1)

new_row_skip_bad(md, result, response) ==
  IF ~result.ok THEN [panic |-> "none", metadata |-> md, fetched |-> FALSE]
  ELSE IF ~Get(result.val, "UK-AIR ID").some
       THEN [panic |-> "mod.rs:150", metadata |-> md, fetched |-> FALSE]
  ELSE LET site_page == read_html(response)
       IN  IF site_page.panic # "none"
           THEN [panic |-> site_page.panic, metadata |-> md, fetched |-> TRUE]
           ELSE LET rec == enrich(result.val, site_page.val.val)
                IN  IF rec.panic # "none"
                    THEN [panic |-> rec.panic, metadata |-> md, fetched |-> TRUE]
                    ELSE [panic |-> "none", metadata |-> Append(md, rec.val),
                          fetched |-> TRUE]

new_row_lazy(md, result, response) ==
  IF ~result.ok THEN [panic |-> "mod.rs:145", metadata |-> md, fetched |-> FALSE]
  ELSE IF ~Get(result.val, "UK-AIR ID").some
       THEN [panic |-> "mod.rs:150", metadata |-> md, fetched |-> FALSE]
  ELSE IF Get(result.val, "End Date") # Some(<< >>)
       THEN [panic |-> "none", metadata |-> Append(md, result.val), fetched |-> FALSE]
  ELSE LET site_page == read_html(response)
       IN  IF site_page.panic # "none"
           THEN [panic |-> site_page.panic, metadata |-> md, fetched |-> TRUE]
           ELSE LET rec == enrich(result.val, site_page.val.val)
                IN  IF rec.panic # "none"
                    THEN [panic |-> rec.panic, metadata |-> md, fetched |-> TRUE]
                    ELSE [panic |-> "none", metadata |-> Append(md, rec.val),
                          fetched |-> TRUE]

\* The body of the loop over csv_reader.deserialize() for one row: the line
\* of the panic it raises, the metadata vector afterwards, and whether the
\* station page was requested.
new_row(md, result, response) ==
  IF ~result.ok THEN [panic |-> "mod.rs:145", metadata |-> md, fetched |-> FALSE]
  ELSE IF ~Get(result.val, "UK-AIR ID").some
       THEN [panic |-> "mod.rs:150", metadata |-> md, fetched |-> FALSE]
  ELSE LET site_page == read_html(response)
       IN  IF site_page.panic # "none"
           THEN [panic |-> site_page.panic, metadata |-> md, fetched |-> TRUE]
           ELSE LET rec == enrich(result.val, site_page.val.val)
                IN  IF rec.panic # "none"
                    THEN [panic |-> rec.panic, metadata |-> md, fetched |-> TRUE]
                    ELSE [panic |-> "none", metadata |-> Append(md, rec.val),
                          fetched |-> TRUE]

\* Lines 97-139 of new: the six configuration lookups, the metadata page,
\* the csv link and the csv download; the value is the csv text.
new_setup(present, md_response, csv_response) ==
  LET cfg == config_lookup(present)
  IN  IF cfg # "none" THEN Panic(cfg)
      ELSE LET md_page == read_html(md_response)
           IN  IF md_page.panic # "none" THEN md_page
               ELSE LET link == get_metadata_csv_link(md_page.val.val)
                    IN  IF link.panic # "none" THEN link
                        ELSE IF ~link.val.some THEN Panic("mod.rs:130")
                        ELSE LET csv_string == download_csv(csv_response)
                             IN  IF csv_string.panic # "none" THEN csv_string
                                 ELSE Value(csv_string.val.val)

-----------------------------------------------------------------------------
(* Inputs *)

Empty == << >>
D2017 == << "2", "0", "1", "7", "-", "0", "1", "-", "0", "1" >>
D2020 == << "2", "0", "2", "0", "-", "0", "1", "-", "0", "1" >>
\* a letter O in the year
DLetter == << "2", "O", "2", "0", "-", "0", "1", "-", "0", "1" >>
\* a character in front of a date
DLead == << "x", "2", "0", "1", "7", "-", "0", "1", "-", "0", "1" >>
\* no such calendar day
DFeb30 == << "2", "0", "2", "0", "-", "0", "2", "-", "3", "0" >>

Instant(date) == parse_datetime(site_date_str(date)).val

\* the bounds a caller passes to select_between_dates
WindowInstants == {Instant(D2017), Instant(D2020)}

\* the clock at start-up, the day of the later window bound
Now0 == Instant(D2020)

UkAirId(i) == << "U", "K", "A" >> \o << CHOOSE c \in Digits : DigitVal(c) = i >>

FullHeader == {"UK-AIR ID", "Start Date", "End Date"}

\* the csv header decides the fields of every record
Headers == {FullHeader, {"Start Date", "End Date"}, {"UK-AIR ID", "End Date"},
            {"UK-AIR ID", "Start Date"}}

Record(header, i, sd, ed) ==
  [f \in header |-> CASE f = "UK-AIR ID" -> UkAirId(i)
                      [] f = "Start Date" -> sd
                      [] f = "End Date" -> ed]

\* the date columns of the rows of a downloaded csv: a station still
\* open, a closed one, and one whose end date has a leading character
CsvDates == {<<D2017, Empty>>, <<D2017, D2017>>, <<D2020, DLead>>}

\* the row results csv_reader.deserialize() yields for a csv of n rows
CsvRowResults(header, n) ==
  [1..n -> {[bad |-> TRUE]} \cup {[bad |-> FALSE, dates |-> d] : d \in CsvDates}]

RowResult(header, i, cell) ==
  IF cell.bad THEN Err ELSE Ok(Record(header, i, cell.dates[1], cell.dates[2]))

SiteIdA == << "?", "s", "i", "t", "e", "_", "i", "d", "=", "A" >>
SiteIdB == << "?", "s", "i", "t", "e", "_", "i", "d", "=", "B" >>
OtherLink == << "/", "d", "e", "x" >>

\* station pages
SitePages ==
  { << Anchor("bData", Some(SiteIdA)), Anchor("bData", Some(SiteIdB)) >>,
    << Anchor("bData", Some(OtherLink)), Anchor("nav", Some(SiteIdB)) >>,
    << Anchor("bData", None) >> }

SiteResponses == {TransportError} \cup {Body(p) : p \in SitePages}

\* metadata pages
MetadataPages ==
  { << Anchor("bCSV", Some(OtherLink)) >>,
    << Anchor("nav", Some(OtherLink)) >>,
    << Anchor("bCSV", None) >> }

MetadataResponses == {TransportError} \cup {Body(p) : p \in MetadataPages}

ConfigChoices ==
  {{ConfigKeys[k] : k \in 1..Len(ConfigKeys)}}
    \cup {{ConfigKeys[k] : k \in (1..Len(ConfigKeys)) \ {j}} : j \in 1..Len(ConfigKeys)}

\* the records select_between_dates may meet
FilterDates ==
  { <<D2017, D2020>>, <<D2017, D2017>>, <<D2020, D2020>>,
    <<D2017, Empty>>, <<Empty, D2020>>,
    <<DLetter, D2020>>, <<D2017, DFeb30>> }

FilterMetadata(header, n) ==
  {[i \in 1..n |-> Record(header, i, c[i][1], c[i][2])] :
     c \in [1..n -> FilterDates]}

-----------------------------------------------------------------------------
(* State *)

NoAurn == [built |-> FALSE]
Aurn(md) == [built |-> TRUE, metadata |-> md]

Init ==
  /\ pc = "start"
  /\ csv = << >>
  /\ row = 0
  /\ metadata = << >>
  /\ aurn = NoAurn
  /\ now = Now0
  /\ ticks = 0
  /\ start_date = 0
  /\ end_date = 0
  /\ site_index = 0
  /\ panicAt = "none"
  /\ fetchLog = << >>
  /\ before = << >>
  /\ evals = << >>
  /\ hist = << >>

\* the states right after a successful AURNMetadata::new
InitFilter ==
  /\ pc = "ready"
  /\ csv = << >>
  /\ \E n \in 0..MaxLen : \E header \in Headers \ {{"Start Date", "End Date"}} :
       /\ row = n
       /\ aurn \in {Aurn(md) : md \in FilterMetadata(header, n)}
       /\ fetchLog = [i \in 1..n |-> [row |-> i, response |-> Body(<< >>)]]
  /\ metadata = << >>
  /\ now = Now0
  /\ ticks = 0
  /\ start_date = 0
  /\ end_date = 0
  /\ site_index = 0
  /\ panicAt = "none"
  /\ before = << >>
  /\ evals = << >>
  /\ hist = << >>

-----------------------------------------------------------------------------
(* AURNMetadata::new *)

\* lines 93-139: up to the csv reader
NewSetup ==
  /\ pc = "start"
  /\ \E present \in ConfigChoices, md_response \in MetadataResponses,
        n \in 0..MaxRows, header \in Headers :
       \E csv_response \in {TransportError}
                             \cup {Body([i \in 1..n |-> RowResult(header, i, cells[i])]) :
                                     cells \in CsvRowResults(header, n)} :
         LET r == new_setup(present, md_response, csv_response)
         IN  IF r.panic # "none"
             THEN /\ pc' = "panicked"
                  /\ panicAt' = r.panic
                  /\ csv' = csv
             ELSE /\ pc' = "rows"
                  /\ panicAt' = panicAt
                  /\ csv' = r.val
  /\ UNCHANGED <<row, metadata, aurn, now, ticks, start_date, end_date,
                 site_index, fetchLog, before, evals, hist>>

\* lines 142-167: one pass of the loop over the csv rows
NewRow ==
  /\ pc = "rows"
  /\ row < Len(csv)
  /\ \E response \in SiteResponses :
       LET r == new_row(metadata, csv[row + 1], response)
       IN  /\ fetchLog' = IF r.fetched
                          THEN Append(fetchLog, [row |-> row + 1, response |-> response])
                          ELSE fetchLog
           /\ IF r.panic # "none"
              THEN /\ pc' = "panicked"
                   /\ panicAt' = r.panic
                   /\ UNCHANGED <<row, metadata>>
              ELSE /\ row' = row + 1
                   /\ metadata' = r.metadata
                   /\ UNCHANGED <<pc, panicAt>>
  /\ UNCHANGED <<csv, aurn, now, ticks, start_date, end_date, site_index,
                 before, evals, hist>>

\* lines 168-170: Self { metadata }
NewReturn ==
  /\ pc = "rows"
  /\ row = Len(csv)
  /\ pc' = "ready"
  /\ aurn' = Aurn(metadata)
  /\ metadata' = << >>
  /\ UNCHANGED <<csv, row, now, ticks, start_date, end_date, site_index,
                 panicAt, fetchLog, before, evals, hist>>

-----------------------------------------------------------------------------
(* AURNMetadata::select_between_dates.  site_index is the Rust index plus  *)
(* one: (0..len).rev() runs it from len down to 1.                         *)

\* line 203-205: the call, with any two bounds
SelectCall ==
  /\ pc = "ready"
  /\ Len(hist) < MaxCalls
  /\ \E sd \in WindowInstants, ed \in WindowInstants :
       /\ start_date' = sd
       /\ end_date' = ed
  /\ site_index' = Len(aurn.metadata)
  /\ before' = aurn.metadata
  /\ evals' = << >>
  /\ pc' = "filter"
  /\ UNCHANGED <<csv, row, metadata, aurn, now, ticks, panicAt, fetchLog, hist>>

\* lines 206-227: one pass of the loop
SelectIter ==
  /\ pc = "filter"
  /\ site_index > 0
  /\ LET site == aurn.metadata[site_index]
         d == SiteDecision(site, start_date, end_date, now)
         entry == [index |-> site_index, site |-> site, now |-> now, d |-> d]
     IN  /\ evals' = Append(evals, entry)
         /\ IF d.panic # "none"
            THEN /\ pc' = "panicked"
                 /\ panicAt' = d.panic
                 /\ UNCHANGED <<aurn, site_index>>
            ELSE /\ aurn' = IF d.remove
                            THEN Aurn(Remove(aurn.metadata, site_index))
                            ELSE aurn
                 /\ site_index' = site_index - 1
                 /\ UNCHANGED <<pc, panicAt>>
  /\ UNCHANGED <<csv, row, metadata, now, ticks, start_date, end_date,
                 fetchLog, before, hist>>

\* line 230: the loop is over
SelectReturn ==
  /\ pc = "filter"
  /\ site_index = 0
  /\ pc' = "ready"
  /\ hist' = Append(hist, [start_date |-> start_date, end_date |-> end_date,
                           before |-> before, after |-> aurn.metadata,
                           evals |-> evals])
  /\ UNCHANGED <<csv, row, metadata, aurn, now, ticks, start_date, end_date,
                 site_index, panicAt, fetchLog, before, evals>>

\* the system clock read by Utc::now() advances while the metadata exists
Tick ==
  /\ pc \in {"ready", "filter"}
  /\ ticks < MaxTicks
  /\ now' = now + 1
  /\ ticks' = ticks + 1
  /\ UNCHANGED <<pc, csv, row, metadata, aurn, start_date, end_date,
                 site_index, panicAt, fetchLog, before, evals, hist>>

Next ==
  \/ NewSetup
  \/ NewRow
  \/ NewReturn
  \/ SelectCall
  \/ SelectIter
  \/ SelectReturn
  \/ Tick

Spec == Init /\ [][Next]_vars

NextFilter ==
  \/ SelectCall
  \/ SelectIter
  \/ SelectReturn
  \/ Tick

FilterSpec == InitFilter /\ [][NextFilter]_vars

-----------------------------------------------------------------------------
(* Evaluations of sites by select_between_dates, with the window of their  *)
(* call: those of the latest call, in progress or over.  Every evaluation  *)
(* of a behaviour is one of them in some state.                            *)

AllEvals ==
  {[e |-> evals[k], sd |-> start_date, ed |-> end_date] : k \in 1..Len(evals)}

\* the string is a calendar date at midnight UTC: the whole string has the
\* shape dddd-dd-ddTdd:dd:ddZ and names a real day
WellFormedDate(s) == HasDateTimeShape(s) /\ parse_datetime(s).ok

Completed(x) == x.e.d.panic = "none"

HasStrings(x) == x.e.d.panic \notin {"mod.rs:207", "mod.rs:208"}

-----------------------------------------------------------------------------
C2_NeverFails ==
  ~(pc = "panicked"
      /\ panicAt \in {"mod.rs:207", "mod.rs:208", "mod.rs:211", "mod.rs:217"})

C4_StrictClassifier ==
  \A x \in AllEvals :
    HasStrings(x)
      => /\ x.e.d.start_match = HasDateTimeShape(x.e.d.start_str)
         /\ ~HasDateTimeShape(x.e.d.start_str)
              => (Completed(x) /\ x.e.d.site_start = MIN_DATETIME)
         /\ (x.e.d.panic # "mod.rs:211")
              => /\ x.e.d.end_match = HasDateTimeShape(x.e.d.end_str)
                 /\ ~HasDateTimeShape(x.e.d.end_str)
                      => (Completed(x) /\ x.e.d.site_end = x.e.now)

\* C5: a second call with the same window, after the clock has advanced or
\* not, leaves the metadata the first call left.
C5_Idempotent ==
  \A i \in 1..(Len(hist) - 1) :
    (hist[i + 1].start_date = hist[i].start_date
       /\ hist[i + 1].end_date = hist[i].end_date)
      => hist[i + 1].after = hist[i].after

\* two calls with the same window completed, the first kept a site without
\* end date, and the second evaluated it at a later clock value
C5_Witness ==
  /\ Len(hist) = 2
  /\ hist[2].start_date = hist[1].start_date
  /\ hist[2].end_date = hist[1].end_date
  /\ \E k \in 1..Len(hist[1].after) :
       hist[1].after[k]["End Date"] = Empty
  /\ \E a \in 1..Len(hist[1].evals), b \in 1..Len(hist[2].evals) :
       hist[2].evals[b].now > hist[1].evals[a].now

\* the positions of the call's original vector that the loop kept
KeptPositions(h) ==
  {h.evals[k].index : k \in {j \in 1..Len(h.evals) : ~h.evals[j].d.remove}}

\* the elements of v at the positions in keep, in the order of v
RECURSIVE Retained(_, _, _)
Retained(v, keep, k) ==
  IF k > Len(v) THEN << >>
  ELSE IF k \in keep THEN << v[k] >> \o Retained(v, keep, k + 1)
       ELSE Retained(v, keep, k + 1)

\* every position of the original vector is evaluated exactly once, from
\* the last to the first, on the record the vector had there at the call;
\* the result is the kept records in their original order, no longer than
\* the original
C6_Subsequence(h) ==
  /\ Len(h.evals) = Len(h.before)
  /\ \A k \in 1..Len(h.evals) :
       /\ h.evals[k].index = Len(h.before) + 1 - k
       /\ h.evals[k].site = h.before[h.evals[k].index]
  /\ h.after = Retained(h.before, KeptPositions(h), 1)
  /\ Len(h.after) <= Len(h.before)

ClockValues == Now0..(Now0 + MaxTicks)

\* the position in hist of the call that has just returned, if any
JustReturned == IF pc = "ready" /\ hist # << >> THEN {Len(hist)} ELSE {}

-----------------------------------------------------------------------------
(* Site codes *)

\* the hrefs, in document order, of the anchors that have one
Hrefs(anchors) ==
  LET withHref == SelectSeq(anchors, LAMBDA a : a.href.some)
  IN  [k \in 1..Len(withHref) |-> withHref[k].href.val]

\* the token of the last href matching site_regex, None when none matches
LastMatchToken(hrefs) ==
  LET ms == {k \in 1..Len(hrefs) : is_match(site_regex, hrefs[k])}
  IN  IF ms = {} THEN None
      ELSE Some(TrailingWord(hrefs[CHOOSE k \in ms : \A j \in ms : j <= k]))

\* record k of the vector new is building is the csv record of row k with
\* the site code given by token, or that csv record unchanged
SiteCodeIs(k, token) ==
  metadata[k] = IF token.some THEN Insert(csv[k].val, "Site Code", token.val)
                ELSE csv[k].val

-----------------------------------------------------------------------------
(* Acquisition *)

RowDecodes(r) == r.ok /\ "UK-AIR ID" \in DOMAIN r.val

\* C8: a row that cannot be decoded, or a record without UK-AIR ID, aborts
\* new with no metadata; metadata exists only when every row was processed,
\* and then holds one record per row.
C8_AllOrNothing ==
  /\ (pc = "panicked" /\ panicAt \in {"mod.rs:145", "mod.rs:150"}) => ~aurn.built
  /\ (\E i \in 1..Len(csv) : ~RowDecodes(csv[i])) => ~aurn.built
  /\ aurn.built => row = Len(csv)
  /\ (aurn.built /\ pc = "ready" /\ hist = << >>) => Len(aurn.metadata) = Len(csv)

\* new decoded and enriched a row, then panicked on the next one
C8_Witness ==
  /\ pc = "panicked" /\ panicAt = "mod.rs:145"
  /\ Len(metadata) >= 1
  /\ ~aurn.built

FetchedId(id) ==
  \E k \in 1..Len(fetchLog) :
    /\ csv[fetchLog[k].row].ok
    /\ Get(csv[fetchLog[k].row].val, "UK-AIR ID") = Some(id)

\* C9 as stated: a station page is fetched only for the records the filter
\* keeps, none for a station the filter discards.
C9_Original ==
  \A x \in AllEvals :
    (Completed(x) /\ x.e.d.remove) => ~FetchedId(x.e.site["UK-AIR ID"])

\* C9 amended: enrichment happens before filtering: new fetches the page of
\* every csv record once, in row order, and select_between_dates fetches
\* nothing, so the stations it discards have been fetched too.
C9_FetchBeforeFilter ==
  /\ aurn.built => /\ Len(fetchLog) = Len(csv)
                   /\ \A k \in 1..Len(fetchLog) : fetchLog[k].row = k
  /\ fetchLog # << >> /\ ~aurn.built => (hist = << >> /\ evals = << >>)

\* the filter removed a station whose page new had fetched
C9_Witness ==
  /\ aurn.built
  /\ \E x \in AllEvals :
       Completed(x) /\ x.e.d.remove /\ FetchedId(x.e.site["UK-AIR ID"])

====
